---- MODULE Spec2Model ----
(***************************************************************************)
(* Range extraction over the four-level Quran structure                    *)
(* (sura -> verse -> word -> block) of src/src/qrn/mushaf.py:              *)
(* _extract_seq, _correct_out_of_bounds and get_text.                      *)
(*                                                                         *)
(* Python lists are 0-based; TLA+ sequences are 1-based.  Every index the  *)
(* program computes is kept as the Python integer and only translated in   *)
(* PyGet, which also gives a negative index Python's meaning (counting     *)
(* from the end).  Strings are sequences of code points.                   *)
(***************************************************************************)
EXTENDS Integers, Sequences, FiniteSets, TLC

\* ------------------------------------------------------------------ bounds
MaxSura == 2
MaxVerse == 2
MaxWord == 2
MaxBlock == 2
\* structures with more leaves than this are not enumerated
MaxLeaves == 4

\* ------------------------------------------------------- Python primitives
\* the Python object None, kept apart from every integer the program computes
None == -99

\* 0 <= i < len(s), or a negative i that Python counts from the end
InRange(s, i) == -Len(s) <= i /\ i < Len(s)

\* s[i] of a Python list
PyGet(s, i) == IF i >= 0 THEN s[i + 1] ELSE s[Len(s) + i + 1]

\* the sequences over S of at most k elements whose weights W[e] add up to
\* at most budget
RECURSIVE BoundedSeqs(_, _, _, _)
BoundedSeqs(S, W, k, budget) ==
    IF k = 0 THEN {<<>>}
    ELSE {<<>>} \cup
         UNION {{<<e>> \o r : r \in BoundedSeqs(S, W, k - 1, budget - W[e])} :
                   e \in {x \in S : W[x] <= budget}}

RECURSIVE SumSeq(_)
SumSeq(s) == IF s = <<>> THEN 0 ELSE s[1] + SumSeq(Tail(s))

\* "".join(parts)
RECURSIVE Join(_)
Join(parts) == IF parts = <<>> THEN <<>> ELSE parts[1] \o Join(Tail(parts))

\* ------------------------------------------------------- the loaded structure
\* A shape gives, per sura, per verse, per word, the number of blocks.
LeavesOfVerse(v) == SumSeq(v)
LeavesOfSura(s) == SumSeq([i \in 1..Len(s) |-> LeavesOfVerse(s[i])])
LeavesOfShape(d) == SumSeq([i \in 1..Len(d) |-> LeavesOfSura(d[i])])
\* no sura, verse or word of the text is empty
WordsOfVerse ==
    BoundedSeqs(1..MaxBlock, [b \in 1..MaxBlock |-> b], MaxWord, MaxLeaves) \ {<<>>}
VersesOfSura ==
    BoundedSeqs(WordsOfVerse, [v \in WordsOfVerse |-> LeavesOfVerse(v)],
                MaxVerse, MaxLeaves) \ {<<>>}
Shapes ==
    BoundedSeqs(VersesOfSura, [s \in VersesOfSura |-> LeavesOfSura(s)],
                MaxSura, MaxLeaves) \ {<<>>}

\* number of leaves before leaf (s, v, w, b) (1-based position in the shape)
LeavesBefore(d, s, v, w) ==
    LeavesOfShape(SubSeq(d, 1, s - 1))
    + LeavesOfSura(SubSeq(d[s], 1, v - 1))
    + LeavesOfVerse(SubSeq(d[s][v], 1, w - 1))

\* data["indexes"]: sura -> verse -> word -> list of block ids; the ids are
\* the positions of data["blocks"], numbered in reading order
MkIndexes(d) ==
    [s \in 1..Len(d) |->
      [v \in 1..Len(d[s]) |->
        [w \in 1..Len(d[s][v]) |->
          [b \in 1..d[s][v][w] |-> LeavesBefore(d, s, v, w) + b - 1]]]]

\* data["blocks"]: block id -> (grapheme_ar, grapheme_lt, archigrapheme_ar,
\* archigrapheme_lt); every text of every block is a different string
MkBlocks(d) ==
    [k \in 1..LeavesOfShape(d) |->
      << <<100 + 4 * k>>, <<101 + 4 * k>>, <<102 + 4 * k>>, <<103 + 4 * k>> >>]

MkData(d) == [indexes |-> MkIndexes(d), blocks |-> MkBlocks(d)]

Structures == {MkData(d) : d \in Shapes}

\* models.Index and models.Block
Index(s, v, w, b) == [sura |-> s, verse |-> v, word |-> w, block |-> b]

Block(g_ar, g_lt, a_ar, a_lt, ind) ==
    [grapheme_ar |-> g_ar, grapheme_lt |-> g_lt,
     archigrapheme_ar |-> a_ar, archigrapheme_lt |-> a_lt, index |-> ind]

\* ------------------------------------------------------------------- state
VARIABLES
    data,        \* the loaded structure: data["indexes"], data["blocks"]
    objs,        \* the Index objects the caller made: object id -> Index
    ini_index,   \* get_text's parameter: id of the caller's initial Index
    end_index,   \* get_text's parameter: id of the caller's final Index
    args,        \* get_text's args dict
    pc,          \* position in get_text
    warnings,    \* levels reported on stderr by _correct_out_of_bounds
    err,         \* the exception that ended the invocation, or "none"
    ini_sura, ini_verse, ini_word, ini_block,   \* locals of _extract_seq
    end_sura, end_verse, end_word, end_block,
    isura, iverse, iword, iblock,               \* its loop variables
    epc,         \* position in _extract_seq
    yielded,     \* records _extract_seq has yielded
    sequence,    \* get_text's sequence: the records it presents
    out,         \* tuples get_text has yielded
    call,        \* number of the invocation (1 or 2)
    objs0,       \* the caller's objects before the first invocation
    out1,        \* what the first invocation yielded
    err1         \* how the first invocation ended

range_vars == <<ini_sura, ini_verse, ini_word, ini_block,
                end_sura, end_verse, end_word, end_block>>
loop_vars == <<isura, iverse, iword, iblock>>
caller_vars == <<data, objs, ini_index, end_index, args, call, objs0, out1, err1>>
vars == <<caller_vars, pc, warnings, err, range_vars, loop_vars, epc, yielded, sequence, out>>

\* --------------------------------------------------------- _extract_seq
Suras == data.indexes
Verses == PyGet(Suras, isura)
Words == PyGet(Verses, iverse)
BlockIds == PyGet(Words, iword)

\* line 53
VerseSkipCheck == isura = ini_sura /\ iverse < ini_verse
\* the verse stop-check comparing against the initial verse
VerseStopCheckWrongVar == isura = end_sura /\ iverse > ini_verse
\* line 55
VerseStopCheck == isura = end_sura /\ iverse > end_verse
\* line 58
WordSkipCheck == isura = ini_sura /\ iverse = ini_verse /\ iword < ini_word
\* the word stop-check comparing the verse against the initial verse
WordStopCheckIniVerse == isura = end_sura /\ iverse = ini_verse /\ iword > end_word
\* line 60
WordStopCheck == isura = end_sura /\ iverse = end_verse /\ iword > end_word
\* lines 63-64
BlockSkipCheck ==
    isura = ini_sura /\ iverse = ini_verse /\ iword = ini_word /\ iblock < ini_block
\* the block stop-check ending the traversal at the final block itself
BlockStopCheckInclusive ==
    isura = end_sura /\ iverse = end_verse /\ iword = end_word /\ iblock >= end_block
\* lines 66-67
BlockStopCheck ==
    isura = end_sura /\ iverse = end_verse /\ iword = end_word /\ iblock > end_block

\* the leaf record with the block number left 0-based
LeafRecordZeroBasedBlock ==
    LET block_index == PyGet(BlockIds, iblock)
        t == data.blocks[block_index + 1]
    IN  Block(t[1], t[2], t[3], t[4],
              Index(isura + 1, iverse + 1, iword + 1, iblock))

\* lines 70-85: the record of the leaf at the loop variables
LeafRecord ==
    LET block_index == PyGet(BlockIds, iblock)
        t == data.blocks[block_index + 1]
    IN  Block(t[1], t[2], t[3], t[4],
              Index(isura + 1, iverse + 1, iword + 1, iblock + 1))

Extracting == pc = "extract"

\* line 51: range(ini_sura, end_sura+1) is exhausted
SuraExhausted ==
    /\ Extracting /\ epc = "sura"
    /\ isura > end_sura
    /\ epc' = "exhausted"
    /\ UNCHANGED <<caller_vars, pc, warnings, err, range_vars, loop_vars, yielded, sequence, out>>

\* lines 51-52: next sura; data["indexes"][isura] raises IndexError when
\* isura is not an index of the list
SuraNext ==
    /\ Extracting /\ epc = "sura"
    /\ isura <= end_sura
    /\ IF InRange(Suras, isura)
         THEN /\ iverse' = 0
              /\ epc' = "verse"
              /\ UNCHANGED <<pc, err>>
         ELSE /\ err' = "IndexError"
              /\ pc' = "raised"
              /\ UNCHANGED <<iverse, epc>>
    /\ UNCHANGED <<caller_vars, warnings, range_vars, isura, iword, iblock, yielded, sequence, out>>

\* line 52: the verses of the sura are exhausted
VerseExhausted ==
    /\ Extracting /\ epc = "verse"
    /\ iverse >= Len(Verses)
    /\ isura' = isura + 1
    /\ epc' = "sura"
    /\ UNCHANGED <<caller_vars, pc, warnings, err, range_vars, iverse, iword, iblock, yielded, sequence, out>>

\* lines 53-54
VerseSkip ==
    /\ Extracting /\ epc = "verse"
    /\ iverse < Len(Verses)
    /\ VerseSkipCheck
    /\ iverse' = iverse + 1
    /\ UNCHANGED <<caller_vars, pc, warnings, err, range_vars, isura, iword, iblock, epc, yielded, sequence, out>>

\* the verse stop-check leaving only the loop over the verses (a break)
VerseStopBreak ==
    /\ Extracting /\ epc = "verse"
    /\ iverse < Len(Verses)
    /\ ~VerseSkipCheck
    /\ VerseStopCheck
    /\ isura' = isura + 1
    /\ epc' = "sura"
    /\ UNCHANGED <<caller_vars, pc, warnings, err, range_vars, iverse, iword, iblock, yielded, sequence, out>>

\* lines 55-56
VerseStop ==
    /\ Extracting /\ epc = "verse"
    /\ iverse < Len(Verses)
    /\ ~VerseSkipCheck
    /\ VerseStopCheck
    /\ epc' = "returned"
    /\ UNCHANGED <<caller_vars, pc, warnings, err, range_vars, loop_vars, yielded, sequence, out>>

\* line 57
VerseEnter ==
    /\ Extracting /\ epc = "verse"
    /\ iverse < Len(Verses)
    /\ ~VerseSkipCheck
    /\ ~VerseStopCheck
    /\ iword' = 0
    /\ epc' = "word"
    /\ UNCHANGED <<caller_vars, pc, warnings, err, range_vars, isura, iverse, iblock, yielded, sequence, out>>

\* line 57: the words of the verse are exhausted
WordExhausted ==
    /\ Extracting /\ epc = "word"
    /\ iword >= Len(Words)
    /\ iverse' = iverse + 1
    /\ epc' = "verse"
    /\ UNCHANGED <<caller_vars, pc, warnings, err, range_vars, isura, iword, iblock, yielded, sequence, out>>

\* lines 58-59
WordSkip ==
    /\ Extracting /\ epc = "word"
    /\ iword < Len(Words)
    /\ WordSkipCheck
    /\ iword' = iword + 1
    /\ UNCHANGED <<caller_vars, pc, warnings, err, range_vars, isura, iverse, iblock, epc, yielded, sequence, out>>

\* lines 60-61
WordStop ==
    /\ Extracting /\ epc = "word"
    /\ iword < Len(Words)
    /\ ~WordSkipCheck
    /\ WordStopCheck
    /\ epc' = "returned"
    /\ UNCHANGED <<caller_vars, pc, warnings, err, range_vars, loop_vars, yielded, sequence, out>>

\* line 62
WordEnter ==
    /\ Extracting /\ epc = "word"
    /\ iword < Len(Words)
    /\ ~WordSkipCheck
    /\ ~WordStopCheck
    /\ iblock' = 0
    /\ epc' = "block"
    /\ UNCHANGED <<caller_vars, pc, warnings, err, range_vars, isura, iverse, iword, yielded, sequence, out>>

\* line 62: the blocks of the word are exhausted
BlockExhausted ==
    /\ Extracting /\ epc = "block"
    /\ iblock >= Len(BlockIds)
    /\ iword' = iword + 1
    /\ epc' = "word"
    /\ UNCHANGED <<caller_vars, pc, warnings, err, range_vars, isura, iverse, iblock, yielded, sequence, out>>

\* lines 63-65
BlockSkip ==
    /\ Extracting /\ epc = "block"
    /\ iblock < Len(BlockIds)
    /\ BlockSkipCheck
    /\ iblock' = iblock + 1
    /\ UNCHANGED <<caller_vars, pc, warnings, err, range_vars, isura, iverse, iword, epc, yielded, sequence, out>>

\* lines 66-68
BlockStop ==
    /\ Extracting /\ epc = "block"
    /\ iblock < Len(BlockIds)
    /\ ~BlockSkipCheck
    /\ BlockStopCheck
    /\ epc' = "returned"
    /\ UNCHANGED <<caller_vars, pc, warnings, err, range_vars, loop_vars, yielded, sequence, out>>

\* lines 70-85
BlockYield ==
    /\ Extracting /\ epc = "block"
    /\ iblock < Len(BlockIds)
    /\ ~BlockSkipCheck
    /\ ~BlockStopCheck
    /\ yielded' = Append(yielded, LeafRecord)
    /\ iblock' = iblock + 1
    /\ UNCHANGED <<caller_vars, pc, warnings, err, range_vars, isura, iverse, iword, epc, sequence, out>>

ExtractStep ==
    \/ SuraExhausted \/ SuraNext
    \/ VerseExhausted \/ VerseSkip \/ VerseStop \/ VerseEnter
    \/ WordExhausted \/ WordSkip \/ WordStop \/ WordEnter
    \/ BlockExhausted \/ BlockSkip \/ BlockStop \/ BlockYield

ExtractDone == epc \in {"exhausted", "returned"}

\* ------------------------------------------- _extract_seq on resolved ranges
\* 0-based coordinates of the leaves of d
LeafCoords(d) ==
    {c \in (0..MaxSura) \X (0..MaxVerse) \X (0..MaxWord) \X (0..MaxBlock) :
        /\ c[1] < Len(d.indexes)
        /\ c[2] < Len(d.indexes[c[1] + 1])
        /\ c[3] < Len(d.indexes[c[1] + 1][c[2] + 1])
        /\ c[4] < Len(d.indexes[c[1] + 1][c[2] + 1][c[3] + 1])}

NoArgs == [blocks |-> TRUE, no_lat |-> FALSE, no_ara |-> FALSE,
           no_graph |-> FALSE, no_arch |-> FALSE]

\* _extract_seq(data, ini_ind, end_ind), lines 41-49, for every structure and
\* every pair of in-bounds 0-based coordinates
InitExtract ==
    /\ data \in Structures
    /\ \E ci \in LeafCoords(data), ce \in LeafCoords(data) :
         /\ objs = <<Index(ci[1], ci[2], ci[3], ci[4]), Index(ce[1], ce[2], ce[3], ce[4])>>
         /\ ini_sura = ci[1] /\ ini_verse = ci[2] /\ ini_word = ci[3] /\ ini_block = ci[4]
         /\ end_sura = ce[1] /\ end_verse = ce[2] /\ end_word = ce[3] /\ end_block = ce[4]
         /\ isura = ci[1]
    /\ ini_index = 1 /\ end_index = 2
    /\ args = NoArgs
    /\ pc = "extract" /\ epc = "sura"
    /\ iverse = 0 /\ iword = 0 /\ iblock = 0
    /\ warnings = <<>> /\ err = "none"
    /\ yielded = <<>> /\ sequence = <<>> /\ out = <<>>
    /\ call = 1 /\ objs0 = objs /\ out1 = <<>> /\ err1 = "none"

SpecExtract == InitExtract /\ [][ExtractStep]_vars

\* the generator consumed to its end (list(result), a for loop): its code
\* runs on as long as it has a next step
SpecExtractFair == InitExtract /\ [][ExtractStep]_vars /\ WF_vars(ExtractStep)

\* ------------------------------------ the loops of _extract_seq as a function
\* The generator reads only data and the two coordinates, so the records it
\* yields are a function of them.  Each operator below is one for loop of
\* lines 51-85 from the given counter on: the records it yields, and whether
\* a return (lines 56, 61, 68) ended the generator.
RECURSIVE BlockLoop(_, _, _, _, _, _, _)
BlockLoop(d, ini, end, s, v, w, b) ==
    LET ids == PyGet(PyGet(PyGet(d.indexes, s), v), w)
        t == d.blocks[PyGet(ids, b) + 1]
    IN  IF b >= Len(ids) THEN [recs |-> <<>>, returned |-> FALSE]
        ELSE IF s = ini[1] /\ v = ini[2] /\ w = ini[3] /\ b < ini[4]
          THEN BlockLoop(d, ini, end, s, v, w, b + 1)
        ELSE IF s = end[1] /\ v = end[2] /\ w = end[3] /\ b > end[4]
          THEN [recs |-> <<>>, returned |-> TRUE]
        ELSE LET rest == BlockLoop(d, ini, end, s, v, w, b + 1)
             IN  [recs |-> <<Block(t[1], t[2], t[3], t[4],
                                   Index(s + 1, v + 1, w + 1, b + 1))>> \o rest.recs,
                  returned |-> rest.returned]

RECURSIVE WordLoop(_, _, _, _, _, _)
WordLoop(d, ini, end, s, v, w) ==
    IF w >= Len(PyGet(PyGet(d.indexes, s), v)) THEN [recs |-> <<>>, returned |-> FALSE]
    ELSE IF s = ini[1] /\ v = ini[2] /\ w < ini[3]
      THEN WordLoop(d, ini, end, s, v, w + 1)
    ELSE IF s = end[1] /\ v = end[2] /\ w > end[3]
      THEN [recs |-> <<>>, returned |-> TRUE]
    ELSE LET blocks == BlockLoop(d, ini, end, s, v, w, 0)
             rest == WordLoop(d, ini, end, s, v, w + 1)
         IN  IF blocks.returned THEN blocks
             ELSE [recs |-> blocks.recs \o rest.recs, returned |-> rest.returned]

RECURSIVE VerseLoop(_, _, _, _, _)
VerseLoop(d, ini, end, s, v) ==
    IF v >= Len(PyGet(d.indexes, s)) THEN [recs |-> <<>>, returned |-> FALSE]
    ELSE IF s = ini[1] /\ v < ini[2]
      THEN VerseLoop(d, ini, end, s, v + 1)
    ELSE IF s = end[1] /\ v > end[2]
      THEN [recs |-> <<>>, returned |-> TRUE]
    ELSE LET words == WordLoop(d, ini, end, s, v, 0)
             rest == VerseLoop(d, ini, end, s, v + 1)
         IN  IF words.returned THEN words
             ELSE [recs |-> words.recs \o rest.recs, returned |-> rest.returned]

RECURSIVE SuraLoop(_, _, _, _)
SuraLoop(d, ini, end, s) ==
    IF s > end[1] THEN [recs |-> <<>>, returned |-> FALSE]
    ELSE LET verses == VerseLoop(d, ini, end, s, 0)
             rest == SuraLoop(d, ini, end, s + 1)
         IN  IF verses.returned THEN verses
             ELSE [recs |-> verses.recs \o rest.recs, returned |-> rest.returned]

\* list(_extract_seq(data, ini_ind, end_ind)) of src/qrn/mushaf.py for
\* in-bounds 0-based coordinates ini and end
ExtractSeq(d, ini, end) == SuraLoop(d, ini, end, ini[1]).recs

\* ------------------------------------------- _extract_seq of src/mushaf.py
\* The standalone script's generator (src/mushaf.py lines 111-166) has the
\* same locals and the same loops; its lines differ from the package's in the
\* word stop-check alone, so its other steps are the actions above.
\* src/mushaf.py line 141
StandaloneWordStopCheck == isura = end_sura /\ iverse = ini_verse /\ iword > end_word

\* src/mushaf.py lines 141-142
StandaloneWordStop ==
    /\ Extracting /\ epc = "word"
    /\ iword < Len(Words)
    /\ ~WordSkipCheck
    /\ StandaloneWordStopCheck
    /\ epc' = "returned"
    /\ UNCHANGED <<caller_vars, pc, warnings, err, range_vars, loop_vars, yielded, sequence, out>>

\* src/mushaf.py line 143
StandaloneWordEnter ==
    /\ Extracting /\ epc = "word"
    /\ iword < Len(Words)
    /\ ~WordSkipCheck
    /\ ~StandaloneWordStopCheck
    /\ iblock' = 0
    /\ epc' = "block"
    /\ UNCHANGED <<caller_vars, pc, warnings, err, range_vars, isura, iverse, iword, yielded, sequence, out>>

StandaloneStep ==
    \/ SuraExhausted \/ SuraNext
    \/ VerseExhausted \/ VerseSkip \/ VerseStop \/ VerseEnter
    \/ WordExhausted \/ WordSkip \/ StandaloneWordStop \/ StandaloneWordEnter
    \/ BlockExhausted \/ BlockSkip \/ BlockStop \/ BlockYield

\* src/mushaf.py's _extract_seq(data, ind) for every structure and every pair
\* of in-bounds 0-based coordinates
SpecStandalone == InitExtract /\ [][StandaloneStep]_vars

\* ---------------------------------------------------- _correct_out_of_bounds
\* the comparison that also fires on the last valid value
ExceedsOrEquals(x, n) == x >= n
\* lines 99, 107, 115, 123: the component is beyond the n elements of its level
Exceeds(x, n) == x > n

\* lines 99-129 on the Index ind: the Index afterwards, the levels warned
\* about, and the exception raised by a lookup, if any.  A lookup
\* data["indexes"][ind.sura-1]... uses Python's indexing, so a component that
\* is 0 or negative reads from the end of the list or raises IndexError.
CorrectOutOfBounds(ind, d) ==
    LET I == d.indexes
        sura == IF Exceeds(ind.sura, Len(I)) THEN Len(I) ELSE ind.sura
        w1 == IF Exceeds(ind.sura, Len(I)) THEN <<"sura">> ELSE <<>>
        ok1 == InRange(I, sura - 1)
        V == PyGet(I, sura - 1)
        verse == IF Exceeds(ind.verse, Len(V)) THEN Len(V) ELSE ind.verse
        w2 == IF Exceeds(ind.verse, Len(V)) THEN w1 \o <<"verse">> ELSE w1
        ok2 == InRange(V, verse - 1)
        W == PyGet(V, verse - 1)
        word == IF Exceeds(ind.word, Len(W)) THEN Len(W) ELSE ind.word
        w3 == IF Exceeds(ind.word, Len(W)) THEN w2 \o <<"word">> ELSE w2
        ok3 == InRange(W, word - 1)
        B == PyGet(W, word - 1)
        block == IF Exceeds(ind.block, Len(B)) THEN Len(B) ELSE ind.block
        w4 == IF Exceeds(ind.block, Len(B)) THEN w3 \o <<"block">> ELSE w3
    IN  IF ~ok1
          THEN [ind |-> Index(sura, ind.verse, ind.word, ind.block),
                warnings |-> w1, err |-> "IndexError"]
        ELSE IF ~ok2
          THEN [ind |-> Index(sura, verse, ind.word, ind.block),
                warnings |-> w2, err |-> "IndexError"]
        ELSE IF ~ok3
          THEN [ind |-> Index(sura, verse, word, ind.block),
                warnings |-> w3, err |-> "IndexError"]
        ELSE [ind |-> Index(sura, verse, word, block),
              warnings |-> w4, err |-> "none"]

\* ------------------------------------------------------------------ get_text
\* get_text is a generator over generators: _extract_seq, the grouping and the
\* presentation loop run interleaved, one record at a time.  No stage writes
\* anything another stage reads, so the records and the exception are those of
\* running the stages one after the other, which is how they are modelled.
ArgNames == {"blocks", "no_lat", "no_ara", "no_graph", "no_arch"}

\* lines 164-176: missing args default to False; the structure is loaded
FillArgs ==
    /\ pc = "start"
    /\ args' = [a \in ArgNames |-> IF a \in DOMAIN args THEN args[a] ELSE FALSE]
    /\ pc' = "correct_ini"
    /\ UNCHANGED <<data, objs, ini_index, end_index, call, objs0, out1, err1,
                   warnings, err, range_vars, loop_vars, epc, yielded, sequence, out>>

\* lines 178-181: ini is the caller's object; _correct_out_of_bounds(ini, data)
CorrectIni ==
    /\ pc = "correct_ini"
    /\ LET r == CorrectOutOfBounds(objs[ini_index], data)
       IN  /\ objs' = [objs EXCEPT ![ini_index] = r.ind]
           /\ warnings' = warnings \o r.warnings
           /\ err' = r.err
           /\ pc' = IF r.err = "none" THEN "correct_end" ELSE "raised"
    /\ UNCHANGED <<data, ini_index, end_index, args, call, objs0, out1, err1,
                   range_vars, loop_vars, epc, yielded, sequence, out>>

\* lines 179-182: end is the caller's object; _correct_out_of_bounds(end, data)
CorrectEnd ==
    /\ pc = "correct_end"
    /\ LET r == CorrectOutOfBounds(objs[end_index], data)
       IN  /\ objs' = [objs EXCEPT ![end_index] = r.ind]
           /\ warnings' = warnings \o r.warnings
           /\ err' = r.err
           /\ pc' = IF r.err = "none" THEN "resolve_last" ELSE "raised"
    /\ UNCHANGED <<data, ini_index, end_index, args, call, objs0, out1, err1,
                   range_vars, loop_vars, epc, yielded, sequence, out>>

\* the last position counted from 0
LastOfZeroBased(s) == Len(s) - 1
\* lines 186, 189, 192, 195: the 1-based number of the last element
LastOf(s) == Len(s)

\* lines 184-195 on the Index end: each -1 becomes the length of the list
\* the components before it select; the lookup happens only for a -1
ResolveLastIndex(end, d) ==
    LET I == d.indexes
        sura == IF end.sura = -1 THEN LastOf(I) ELSE end.sura
        ok1 == end.verse = -1 => InRange(I, sura - 1)
        verse == IF end.verse = -1 THEN LastOf(PyGet(I, sura - 1)) ELSE end.verse
        ok2 == end.word = -1 =>
                  /\ InRange(I, sura - 1)
                  /\ InRange(PyGet(I, sura - 1), verse - 1)
        word == IF end.word = -1
                  THEN LastOf(PyGet(PyGet(I, sura - 1), verse - 1))
                  ELSE end.word
        ok3 == end.block = -1 =>
                  /\ InRange(I, sura - 1)
                  /\ InRange(PyGet(I, sura - 1), verse - 1)
                  /\ InRange(PyGet(PyGet(I, sura - 1), verse - 1), word - 1)
        block == IF end.block = -1
                   THEN LastOf(PyGet(PyGet(PyGet(I, sura - 1), verse - 1), word - 1))
                   ELSE end.block
    IN  IF ~ok1
          THEN [ind |-> Index(sura, end.verse, end.word, end.block), err |-> "IndexError"]
        ELSE IF ~ok2
          THEN [ind |-> Index(sura, verse, end.word, end.block), err |-> "IndexError"]
        ELSE IF ~ok3
          THEN [ind |-> Index(sura, verse, word, end.block), err |-> "IndexError"]
        ELSE [ind |-> Index(sura, verse, word, block), err |-> "none"]

\* lines 184-195
ResolveLast ==
    /\ pc = "resolve_last"
    /\ LET r == ResolveLastIndex(objs[end_index], data)
       IN  /\ objs' = [objs EXCEPT ![end_index] = r.ind]
           /\ err' = r.err
           /\ pc' = IF r.err = "none" THEN "base_zero" ELSE "raised"
    /\ UNCHANGED <<data, ini_index, end_index, args, call, objs0, out1, err1,
                   warnings, range_vars, loop_vars, epc, yielded, sequence, out>>

\* Index.to_base_zero (models.py): every component one less, in place
ToBaseZeroIndex(ind) ==
    Index(ind.sura - 1, ind.verse - 1, ind.word - 1,
          IF ind.block = None THEN None ELSE ind.block - 1)

\* lines 197-198: ini.to_base_zero(), then end.to_base_zero(), each on the
\* caller's object
ToBaseZero ==
    /\ pc = "base_zero"
    /\ LET o1 == [objs EXCEPT ![ini_index] = ToBaseZeroIndex(objs[ini_index])]
       IN  objs' = [o1 EXCEPT ![end_index] = ToBaseZeroIndex(o1[end_index])]
    /\ pc' = "call_extract"
    /\ UNCHANGED <<data, ini_index, end_index, args, call, objs0, out1, err1,
                   warnings, err, range_vars, loop_vars, epc, yielded, sequence, out>>

\* line 200 and lines 41-51: _extract_seq(data, ini_index, end_index) starts
StartExtract ==
    /\ pc = "call_extract"
    /\ ini_sura' = objs[ini_index].sura
    /\ ini_verse' = objs[ini_index].verse
    /\ ini_word' = objs[ini_index].word
    /\ ini_block' = objs[ini_index].block
    /\ end_sura' = objs[end_index].sura
    /\ end_verse' = objs[end_index].verse
    /\ end_word' = objs[end_index].word
    /\ end_block' = objs[end_index].block
    /\ isura' = objs[ini_index].sura
    /\ epc' = "sura"
    /\ pc' = "extract"
    /\ UNCHANGED <<caller_vars, warnings, err, iverse, iword, iblock, yielded, sequence, out>>

\* line 206: the groupby key
WordKey(b) == <<b.index.sura, b.index.verse, b.index.word>>

\* itertools.groupby (line 204): the runs of consecutive records with equal key
RECURSIVE GroupBy(_)
GroupBy(s) ==
    IF s = <<>> THEN <<>>
    ELSE LET rest == GroupBy(Tail(s))
         IN  IF rest # <<>> /\ WordKey(rest[1][1]) = WordKey(s[1])
               THEN <<(<<s[1]>> \o rest[1])>> \o Tail(rest)
               ELSE <<(<<s[1]>>)>> \o rest

\* the word record with the Latin archigrapheme joined from the Arabic one
WordRecordCopiedField(blocks_group) ==
    LET n == Len(blocks_group)
        ind == WordKey(blocks_group[1])
    IN  Block(Join([i \in 1..n |-> blocks_group[i].grapheme_ar]),
              Join([i \in 1..n |-> blocks_group[i].grapheme_lt]),
              Join([i \in 1..n |-> blocks_group[i].archigrapheme_ar]),
              Join([i \in 1..n |-> blocks_group[i].archigrapheme_ar]),
              Index(ind[1], ind[2], ind[3], None))

\* lines 210-220: the word record of one group
WordRecord(blocks_group) ==
    LET n == Len(blocks_group)
        ind == WordKey(blocks_group[1])
    IN  Block(Join([i \in 1..n |-> blocks_group[i].grapheme_ar]),
              Join([i \in 1..n |-> blocks_group[i].grapheme_lt]),
              Join([i \in 1..n |-> blocks_group[i].archigrapheme_ar]),
              Join([i \in 1..n |-> blocks_group[i].archigrapheme_lt]),
              Index(ind[1], ind[2], ind[3], None))

\* lines 204-221
AggregateWords(s) ==
    LET _seq == GroupBy(s)
    IN  [i \in 1..Len(_seq) |-> WordRecord(_seq[i])]

\* lines 200-202 with args["blocks"] set: the leaves are presented as they are
PassBlocks ==
    /\ pc = "extract" /\ ExtractDone
    /\ args["blocks"]
    /\ sequence' = yielded
    /\ pc' = "present"
    /\ UNCHANGED <<caller_vars, warnings, err, range_vars, loop_vars, epc, yielded, out>>

\* lines 202-221 with args["blocks"] not set
Aggregate ==
    /\ pc = "extract" /\ ExtractDone
    /\ ~args["blocks"]
    /\ sequence' = AggregateWords(yielded)
    /\ pc' = "present"
    /\ UNCHANGED <<caller_vars, warnings, err, range_vars, loop_vars, epc, yielded, out>>

\* str(n) of an integer, as code points
RECURSIVE Str(_)
Str(n) ==
    IF n < 0 THEN <<45>> \o Str(-n)
    ELSE IF n < 10 THEN <<48 + n>>
    ELSE Str(n \div 10) \o <<48 + (n % 10)>>
Colon == <<58>>

\* the truth value of block.index.block (line 248)
Truthy(x) == x # None /\ x # 0

\* lines 247-249
IndexString(ind) ==
    LET s == Str(ind.sura) \o Colon \o Str(ind.verse) \o Colon \o Str(ind.word)
    IN  IF Truthy(ind.block) THEN s \o Colon \o Str(ind.block) ELSE s

\* lines 225-245: the texts selected for a record, or <<"NameError">> where
\* the code reads the undefined name no_arch (line 228)
SelectTexts(block, a) ==
    IF a["no_lat"]
      THEN IF a["no_graph"]
             THEN [err |-> "none", res |-> <<block.archigrapheme_ar>>]
             ELSE [err |-> "NameError", res |-> <<>>]
    ELSE IF a["no_ara"]
      THEN IF a["no_graph"]
             THEN [err |-> "none", res |-> <<block.archigrapheme_lt>>]
           ELSE IF a["no_arch"]
             THEN [err |-> "none", res |-> <<block.grapheme_lt>>]
           ELSE [err |-> "none", res |-> <<block.grapheme_lt, block.archigrapheme_lt>>]
    ELSE IF a["no_graph"]
           THEN [err |-> "none",
                 res |-> <<block.archigrapheme_ar, block.archigrapheme_lt>>]
         ELSE IF a["no_arch"]
           THEN [err |-> "none", res |-> <<block.grapheme_ar, block.grapheme_lt>>]
         ELSE [err |-> "none",
               res |-> <<block.grapheme_ar, block.grapheme_lt,
                         block.archigrapheme_ar, block.archigrapheme_lt>>]

\* the record the loop of line 223 is at
NextRecord == sequence[Len(out) + 1]

\* lines 223-253: one record is selected, formatted and yielded
Present ==
    /\ pc = "present"
    /\ Len(out) < Len(sequence)
    /\ SelectTexts(NextRecord, args).err = "none"
    /\ out' = Append(out, SelectTexts(NextRecord, args).res \o <<IndexString(NextRecord.index)>>)
    /\ UNCHANGED <<caller_vars, pc, warnings, err, range_vars, loop_vars, epc, yielded, sequence>>

\* line 228: elif no_arch raises NameError
PresentRaises ==
    /\ pc = "present"
    /\ Len(out) < Len(sequence)
    /\ SelectTexts(NextRecord, args).err # "none"
    /\ err' = SelectTexts(NextRecord, args).err
    /\ pc' = "raised"
    /\ UNCHANGED <<caller_vars, warnings, range_vars, loop_vars, epc, yielded, sequence, out>>

\* line 223: the sequence is exhausted and get_text returns
Finish ==
    /\ pc = "present"
    /\ Len(out) = Len(sequence)
    /\ pc' = "done"
    /\ UNCHANGED <<caller_vars, warnings, err, range_vars, loop_vars, epc, yielded, sequence, out>>

Ended == pc \in {"done", "raised"}

\* the caller calls get_text again with the same two Index objects and the
\* same args dict
CallAgain ==
    /\ Ended /\ call = 1
    /\ call' = 2
    /\ out1' = out /\ err1' = err
    /\ pc' = "start" /\ epc' = "sura"
    /\ warnings' = <<>> /\ err' = "none"
    /\ ini_sura' = 0 /\ ini_verse' = 0 /\ ini_word' = 0 /\ ini_block' = 0
    /\ end_sura' = 0 /\ end_verse' = 0 /\ end_word' = 0 /\ end_block' = 0
    /\ isura' = 0 /\ iverse' = 0 /\ iword' = 0 /\ iblock' = 0
    /\ yielded' = <<>> /\ sequence' = <<>> /\ out' = <<>>
    /\ UNCHANGED <<data, objs, ini_index, end_index, args, objs0>>

\* lexicographic order over (sura, verse, word, block)
LexLt(a, b) ==
    \/ a[1] < b[1]
    \/ a[1] = b[1] /\ a[2] < b[2]
    \/ a[1] = b[1] /\ a[2] = b[2] /\ a[3] < b[3]
    \/ a[1] = b[1] /\ a[2] = b[2] /\ a[3] = b[3] /\ a[4] < b[4]
LexLe(a, b) == a = b \/ LexLt(a, b)

\* ------------------------------------------------------ callers of get_text
\* 1-based coordinates of the leaves of d
Leaves1(d) == {<<c[1] + 1, c[2] + 1, c[3] + 1, c[4] + 1>> : c \in LeafCoords(d)}

\* c with its last k components left unspecified, as the command line reads
\* a shortened index: 0 in an initial index, -1 in a final one
Shortened(c, k, default) == [i \in 1..4 |-> IF i > 4 - k THEN default ELSE c[i]]

Explicit == (1..MaxSura) \X (1..MaxVerse) \X (1..MaxWord) \X (1..MaxBlock)

\* the ranges get_text is called with: every pair of leaves, in either
\* order; an index and its shortened forms on both sides; an explicit final
\* index that may lie outside the structure
Ranges(d) ==
    (Leaves1(d) \X Leaves1(d))
    \cup {<<Shortened(c, k, 0), Shortened(c, m, -1)>> :
             c \in Leaves1(d), k \in 0..4, m \in 0..4}
    \cup {<<(<<1, 1, 1, 1>>), e>> : e \in Explicit}

\* the args of the tests (lines 10-13, 33-37 of tests/test_qrn.py)
TestArgs == {[a \in {} |-> FALSE], [a \in {"blocks"} |-> TRUE]}

\* the args of __main__.py (lines 105-111): all five keys; no_lat and no_ara
\* exclude each other, and so do no_graph and no_arch (lines 55-76)
MainArgs ==
    {a \in [ArgNames -> BOOLEAN] :
        /\ ~(a["no_lat"] /\ a["no_ara"])
        /\ ~(a["no_graph"] /\ a["no_arch"])}

FirstLeaf == <<1, 1, 1, 1>>
LastLeaf(d) == CHOOSE c \in Leaves1(d) : \A o \in Leaves1(d) : o = c \/ LexLt(o, c)

InitCall(c_ini, c_end, a) ==
    /\ objs = <<Index(c_ini[1], c_ini[2], c_ini[3], c_ini[4]),
                Index(c_end[1], c_end[2], c_end[3], c_end[4])>>
    /\ ini_index = 1 /\ end_index = 2
    /\ args = a
    /\ pc = "start" /\ epc = "sura"
    /\ ini_sura = 0 /\ ini_verse = 0 /\ ini_word = 0 /\ ini_block = 0
    /\ end_sura = 0 /\ end_verse = 0 /\ end_word = 0 /\ end_block = 0
    /\ isura = 0 /\ iverse = 0 /\ iword = 0 /\ iblock = 0
    /\ warnings = <<>> /\ err = "none"
    /\ yielded = <<>> /\ sequence = <<>> /\ out = <<>>
    /\ call = 1 /\ objs0 = objs /\ out1 = <<>> /\ err1 = "none"

\* get_text called by the tests on every range, and by __main__ with every
\* combination of flags on one leaf and on the whole text
Init ==
    /\ data \in Structures
    /\ \/ \E r \in Ranges(data), a \in TestArgs : InitCall(r[1], r[2], a)
       \/ \E e \in {FirstLeaf, LastLeaf(data)}, a \in MainArgs : InitCall(FirstLeaf, e, a)

Next ==
    \/ FillArgs \/ CorrectIni \/ CorrectEnd \/ ResolveLast \/ ToBaseZero
    \/ StartExtract \/ ExtractStep
    \/ PassBlocks \/ Aggregate \/ Present \/ PresentRaises \/ Finish

Spec == Init /\ [][Next]_vars

\* get_text called, and called once more when it has ended
NextTwice == Next \/ CallAgain

SpecTwice == Init /\ [][NextTwice]_vars

\* get_text(a, a, args=...): the caller passes one Index object as both
\* ini_index and end_index (lines 178-179 bind ini and end to the same object)
InitCallShared(c, a) ==
    /\ objs = <<Index(c[1], c[2], c[3], c[4])>>
    /\ ini_index = 1 /\ end_index = 1
    /\ args = a
    /\ pc = "start" /\ epc = "sura"
    /\ ini_sura = 0 /\ ini_verse = 0 /\ ini_word = 0 /\ ini_block = 0
    /\ end_sura = 0 /\ end_verse = 0 /\ end_word = 0 /\ end_block = 0
    /\ isura = 0 /\ iverse = 0 /\ iword = 0 /\ iblock = 0
    /\ warnings = <<>> /\ err = "none"
    /\ yielded = <<>> /\ sequence = <<>> /\ out = <<>>
    /\ call = 1 /\ objs0 = objs /\ out1 = <<>> /\ err1 = "none"

\* the calls of Init, and the calls with one object for both parameters
InitShared ==
    \/ Init
    \/ /\ data \in Structures
       /\ \E c \in Explicit, a \in TestArgs : InitCallShared(c, a)

SpecShared == InitShared /\ [][Next]_vars

\* --------------------------------------------- resolution of raw coordinates
RawIni == (0..MaxSura + 1) \X (0..MaxVerse + 1) \X (0..MaxWord + 1) \X (0..MaxBlock + 1)
RawComponent(n) == {-1} \cup (1..n + 1)
RawEnd == RawComponent(MaxSura) \X RawComponent(MaxVerse)
              \X RawComponent(MaxWord) \X RawComponent(MaxBlock)

\* get_text up to the start of _extract_seq, on every raw initial index
\* (components unspecified, explicit in bounds or out of bounds) and on every
\* raw final index (components last, explicit in bounds or out of bounds)
InitResolve ==
    /\ data \in Structures
    /\ \/ \E c \in RawIni : InitCall(c, FirstLeaf, [a \in {} |-> FALSE])
       \/ \E c \in RawEnd : InitCall(FirstLeaf, c, [a \in {} |-> FALSE])

NextResolve ==
    FillArgs \/ CorrectIni \/ CorrectEnd \/ ResolveLast \/ ToBaseZero \/ StartExtract

SpecResolve == InitResolve /\ [][NextResolve]_vars

\* ------------------------------------------------------ claims on _extract_seq

IniCoord == <<ini_sura, ini_verse, ini_word, ini_block>>
EndCoord == <<end_sura, end_verse, end_word, end_block>>

\* the 0-based position a record's coordinate names
CoordOf(r) == <<r.index.sura - 1, r.index.verse - 1, r.index.word - 1, r.index.block - 1>>

\* the four texts of the structure's leaf at 0-based coordinate c
LeafTexts(d, c) == d.blocks[d.indexes[c[1] + 1][c[2] + 1][c[3] + 1][c[4] + 1] + 1]
TextsOf(r) == <<r.grapheme_ar, r.grapheme_lt, r.archigrapheme_ar, r.archigrapheme_lt>>

LeavesInRange == {c \in LeafCoords(data) : LexLe(IniCoord, c) /\ LexLe(c, EndCoord)}

\* C1: for a resolved in-bounds pair with ini <= end, every record emitted so
\* far is a leaf of [ini, end] tagged with its coordinate plus 1 and carrying
\* that leaf's texts, the records are strictly increasing, and when the
\* traversal has ended they are all the leaves of [ini, end]: the first is the
\* leaf at ini and the last the leaf at end.
C1_ExactRange ==
    LexLe(IniCoord, EndCoord) =>
        /\ \A i \in 1..Len(yielded) :
              /\ CoordOf(yielded[i]) \in LeavesInRange
              /\ TextsOf(yielded[i]) = LeafTexts(data, CoordOf(yielded[i]))
        /\ \A i \in 1..Len(yielded) - 1 :
              LexLt(CoordOf(yielded[i]), CoordOf(yielded[i + 1]))
        /\ ExtractDone =>
              /\ Len(yielded) = Cardinality(LeavesInRange)
              /\ CoordOf(yielded[1]) = IniCoord
              /\ CoordOf(yielded[Len(yielded)]) = EndCoord

\* a finished traversal of a range that starts inside a word of one sura and
\* ends in the next sura
C1_Witness ==
    /\ ExtractDone
    /\ ini_sura < end_sura
    /\ ini_block > 0
    /\ Len(yielded) >= 3

\* C6: for a resolved in-bounds pair with ini > end no record is ever emitted,
\* no error is raised, and the traversal is never stuck before it has ended.
C6_ReversedEmpty ==
    LexLt(EndCoord, IniCoord) =>
        /\ yielded = <<>>
        /\ err = "none"
        /\ ExtractDone \/ ENABLED ExtractStep

\* a finished traversal of a reversed range inside one sura, ended by the
\* verse stop-check after skipping
C6_Witness ==
    /\ epc = "returned"
    /\ ini_sura = end_sura
    /\ ini_verse > end_verse
    /\ iverse = ini_verse

\* ------------------------------------------ claims on coordinate resolution
Min(a, b) == IF a <= b THEN a ELSE b

AllExplicit(ind) == ind.sura >= 1 /\ ind.verse >= 1 /\ ind.word >= 1 /\ ind.block >= 1

\* the 1-based Index ind names a leaf of d
InBounds1(ind, d) ==
    /\ ind.sura \in 1..Len(d.indexes)
    /\ ind.verse \in 1..Len(d.indexes[ind.sura])
    /\ ind.word \in 1..Len(d.indexes[ind.sura][ind.verse])
    /\ ind.block \in 1..Len(d.indexes[ind.sura][ind.verse][ind.word])

\* an explicit 1-based Index with every component cut down, level by level,
\* to the number of elements inside the levels already cut down
Clamped(ind, d) ==
    LET s == Min(ind.sura, Len(d.indexes))
        v == Min(ind.verse, Len(d.indexes[s]))
        w == Min(ind.word, Len(d.indexes[s][v]))
        b == Min(ind.block, Len(d.indexes[s][v][w]))
    IN  Index(s, v, w, b)

\* the levels at which two Indexes differ, in the order sura, verse, word, block
Replaced(before, after) ==
    (IF before.sura # after.sura THEN <<"sura">> ELSE <<>>)
    \o (IF before.verse # after.verse THEN <<"verse">> ELSE <<>>)
    \o (IF before.word # after.word THEN <<"word">> ELSE <<>>)
    \o (IF before.block # after.block THEN <<"block">> ELSE <<>>)

IniBefore == objs0[ini_index]
EndBefore == objs0[end_index]

\* C4: on a 1-based Index whose components are all explicit,
\* _correct_out_of_bounds never raises, leaves the Index cut down level by
\* level to an in-bounds Index (components in bounds unchanged), and warns
\* about exactly the components it replaced, in the order of the levels.
C4_ClampExplicit ==
    (call = 1 /\ AllExplicit(IniBefore) /\ AllExplicit(EndBefore)) =>
        /\ pc # "raised"
        /\ pc = "correct_end" =>
              /\ objs[ini_index] = Clamped(IniBefore, data)
              /\ InBounds1(objs[ini_index], data)
              /\ warnings = Replaced(IniBefore, objs[ini_index])
        /\ pc = "resolve_last" =>
              /\ objs[end_index] = Clamped(EndBefore, data)
              /\ InBounds1(objs[end_index], data)
              /\ warnings = Replaced(IniBefore, objs[ini_index])
                              \o Replaced(EndBefore, objs[end_index])

\* _correct_out_of_bounds has replaced the sura and the block of an explicit
\* final Index and left its verse and word, which were in bounds
C4_Witness ==
    /\ pc = "resolve_last"
    /\ AllExplicit(EndBefore)
    /\ EndBefore.sura > Len(data.indexes)
    /\ EndBefore.verse = 2
    /\ warnings = <<"sura", "block">>
    /\ objs[end_index].verse = 2

\* a final Index whose components are each -1 or explicit and in bounds inside
\* the resolved enclosing levels, and what it resolves to
LastOrInBounds(ind, d) ==
    LET s == IF ind.sura = -1 THEN Len(d.indexes) ELSE ind.sura
        v == IF ind.verse = -1 THEN Len(d.indexes[s]) ELSE ind.verse
        w == IF ind.word = -1 THEN Len(d.indexes[s][v]) ELSE ind.word
    IN  /\ ind.sura = -1 \/ ind.sura \in 1..Len(d.indexes)
        /\ ind.verse = -1 \/ ind.verse \in 1..Len(d.indexes[s])
        /\ ind.word = -1 \/ ind.word \in 1..Len(d.indexes[s][v])
        /\ ind.block = -1 \/ ind.block \in 1..Len(d.indexes[s][v][w])

Resolved(ind, d) ==
    LET s == IF ind.sura = -1 THEN Len(d.indexes) ELSE ind.sura
        v == IF ind.verse = -1 THEN Len(d.indexes[s]) ELSE ind.verse
        w == IF ind.word = -1 THEN Len(d.indexes[s][v]) ELSE ind.word
        b == IF ind.block = -1 THEN Len(d.indexes[s][v][w]) ELSE ind.block
    IN  Index(s, v, w, b)

\* C5: for a final Index whose components are each -1 or explicit and in
\* bounds inside the resolved enclosing levels, the resolution of get_text
\* raises nothing, replaces each -1 by the last valid index inside the
\* resolved enclosing levels and leaves every explicit component unchanged.
C5_ResolveLast ==
    (call = 1 /\ AllExplicit(IniBefore) /\ LastOrInBounds(EndBefore, data)) =>
        /\ pc # "raised"
        /\ pc = "base_zero" => objs[end_index] = Resolved(EndBefore, data)

\* ------------------------------------------------------ claims on get_text
Last(s) == s[Len(s)]
AsTuple(ind) == <<ind.sura, ind.verse, ind.word, ind.block>>

\* "s:v:w:b" and "s:v:w" written out for one-digit components
CoordString4(c) == <<48 + c[1], 58, 48 + c[2], 58, 48 + c[3], 58, 48 + c[4]>>
CoordString3(c) == <<48 + c[1], 58, 48 + c[2], 58, 48 + c[3]>>

\* no presentation flag is set (the args of the tests)
PlainArgs ==
    \A a \in {"no_lat", "no_ara", "no_graph", "no_arch"} :
        a \in DOMAIN args => ~args[a]
BlocksOn == "blocks" \in DOMAIN args /\ args["blocks"]

\* the 1-based leaf both Indexes named before the first invocation
SameLeaf ==
    /\ call = 1
    /\ ini_index # end_index
    /\ IniBefore = EndBefore
    /\ InBounds1(IniBefore, data)

\* C2: called with two distinct Index objects that hold the same in-bounds
\* 1-based coordinate c, get_text raises nothing and yields exactly one tuple:
\* in block mode the four texts of the leaf at c followed by "s:v:w:b", in
\* word mode a tuple that ends with "s:v:w".
C2_SingleLeaf ==
    (SameLeaf /\ PlainArgs) =>
        /\ pc # "raised"
        /\ Len(out) <= 1
        /\ pc = "done" =>
              LET c == AsTuple(IniBefore)
                  t == LeafTexts(data, <<c[1] - 1, c[2] - 1, c[3] - 1, c[4] - 1>>)
              IN  /\ Len(out) = 1
                  /\ BlocksOn => out[1] = <<t[1], t[2], t[3], t[4], CoordString4(c)>>
                  /\ ~BlocksOn => Last(out[1]) = CoordString3(c)

\* get_text has returned after a call in block mode for the second block of a
\* second word in the second sura
C2_Witness ==
    /\ pc = "done"
    /\ SameLeaf /\ PlainArgs /\ BlocksOn
    /\ IniBefore.sura = 2 /\ IniBefore.word = 2 /\ IniBefore.block = 2
    /\ Len(out) = 1

\* C3: called in block mode with ini = (s, v, w, 1) or (s, v, w, 0) and
\* end = (s, v, w, -1) for an in-bounds word with n blocks, get_text raises
\* nothing and yields exactly n tuples that end with "s:v:w:1" ... "s:v:w:n".
WholeWord ==
    /\ call = 1
    /\ EndBefore.block = -1
    /\ IniBefore.block \in {0, 1}
    /\ <<EndBefore.sura, EndBefore.verse, EndBefore.word>>
         = <<IniBefore.sura, IniBefore.verse, IniBefore.word>>
    /\ InBounds1(Index(IniBefore.sura, IniBefore.verse, IniBefore.word, 1), data)

C3_LastBlock ==
    (WholeWord /\ BlocksOn /\ PlainArgs) =>
        /\ pc # "raised"
        /\ pc = "done" =>
              LET n == Len(data.indexes[IniBefore.sura][IniBefore.verse][IniBefore.word])
              IN  /\ Len(out) = n
                  /\ \A i \in 1..n :
                        Last(out[i]) = CoordString4(<<IniBefore.sura, IniBefore.verse,
                                                      IniBefore.word, i>>)

\* get_text has returned the two blocks of a word that is not the last word of
\* its verse, asked for with block 0 to block -1
C3_Witness ==
    /\ pc = "done"
    /\ WholeWord /\ BlocksOn /\ PlainArgs
    /\ IniBefore.block = 0
    /\ IniBefore.word = 1
    /\ Len(data.indexes[IniBefore.sura][IniBefore.verse]) = 2
    /\ Len(out) = 2

\* the leaves of the extracted sequence that belong to word k, in its order
LeavesOfWord(k) == SelectSeq(yielded, LAMBDA b : WordKey(b) = k)
\* the position in the extracted sequence of the first leaf of word k
FirstOccurrence(k) ==
    CHOOSE i \in 1..Len(yielded) :
        /\ WordKey(yielded[i]) = k
        /\ \A j \in 1..i - 1 : WordKey(yielded[j]) # k

\* the grouping has run: get_text is presenting word records
WordMode ==
    /\ ~BlocksOn
    /\ pc \in {"present", "done"} \/ (pc = "raised" /\ err = "NameError")

\* C7: with the blocks flag off, the records get_text presents are one per
\* distinct (sura, verse, word) of the extracted leaves, in the order of first
\* occurrence; each text of a record is the concatenation of that text over
\* exactly the leaves of its word, in order, and its coordinate is the key
\* with block = None.
C7_Aggregation ==
    WordMode =>
        /\ Len(sequence) = Cardinality({WordKey(yielded[i]) : i \in 1..Len(yielded)})
        /\ \A j \in 1..Len(sequence) :
              LET k == WordKey(sequence[j])
                  L == LeavesOfWord(k)
              IN  /\ L # <<>>
                  /\ sequence[j].index.block = None
                  /\ sequence[j].grapheme_ar = Join([i \in 1..Len(L) |-> L[i].grapheme_ar])
                  /\ sequence[j].grapheme_lt = Join([i \in 1..Len(L) |-> L[i].grapheme_lt])
                  /\ sequence[j].archigrapheme_ar
                       = Join([i \in 1..Len(L) |-> L[i].archigrapheme_ar])
                  /\ sequence[j].archigrapheme_lt
                       = Join([i \in 1..Len(L) |-> L[i].archigrapheme_lt])
        /\ \A j \in 1..Len(sequence) - 1 :
              FirstOccurrence(WordKey(sequence[j])) < FirstOccurrence(WordKey(sequence[j + 1]))

\* three word records made of four leaves: a word cut at its second block,
\* a word of two blocks, a word of one block
C7_Witness ==
    /\ WordMode /\ pc = "done"
    /\ Len(yielded) = 4
    /\ Len(sequence) = 3
    /\ Len(sequence[1].grapheme_ar) = 1
    /\ Len(sequence[2].archigrapheme_lt) = 2
    /\ Len(sequence[3].grapheme_lt) = 1

\* the texts and the order the presentation table gives for the flags a
TableTexts(block, a) ==
    IF a["no_lat"] /\ a["no_graph"] THEN <<block.archigrapheme_ar>>
    ELSE IF a["no_lat"] /\ a["no_arch"] THEN <<block.grapheme_ar>>
    ELSE IF a["no_lat"] THEN <<block.grapheme_ar, block.archigrapheme_ar>>
    ELSE IF a["no_ara"] /\ a["no_graph"] THEN <<block.archigrapheme_lt>>
    ELSE IF a["no_ara"] /\ a["no_arch"] THEN <<block.grapheme_lt>>
    ELSE IF a["no_ara"] THEN <<block.grapheme_lt, block.archigrapheme_lt>>
    ELSE IF a["no_graph"] THEN <<block.archigrapheme_ar, block.archigrapheme_lt>>
    ELSE IF a["no_arch"] THEN <<block.grapheme_ar, block.grapheme_lt>>
    ELSE <<block.grapheme_ar, block.grapheme_lt,
           block.archigrapheme_ar, block.archigrapheme_lt>>

Presenting == pc \in {"present", "done"} \/ (pc = "raised" /\ err = "NameError")

\* C8: for each of the nine flag combinations of the presentation table,
\* get_text raises nothing while presenting and every tuple it yields is the
\* texts the table lists for the combination, in that order, followed by the
\* coordinate string.
C8_PresentationTable ==
    (Presenting /\ args \in MainArgs) =>
        /\ err = "none"
        /\ \A i \in 1..Len(out) :
              /\ Len(out[i]) = Len(TableTexts(sequence[i], args)) + 1
              /\ SubSeq(out[i], 1, Len(out[i]) - 1) = TableTexts(sequence[i], args)

\* the decimal numeral of an integer of one digit, with its sign
Decimal1(n) == IF n < 0 THEN <<45, 48 - n>> ELSE <<48 + n>>

\* C9: the last element of every tuple get_text yields is the coordinate of
\* the record it presents: "sura:verse:word:block" with block >= 1 when the
\* blocks flag is on, "sura:verse:word" when it is off.
C9_CoordinateString ==
    \A i \in 1..Len(out) :
        LET ind == sequence[i].index
        IN  IF BlocksOn
              THEN /\ ind.block >= 1
                   /\ Last(out[i]) = Decimal1(ind.sura) \o <<58>> \o Decimal1(ind.verse)
                                       \o <<58>> \o Decimal1(ind.word)
                                       \o <<58>> \o Decimal1(ind.block)
              ELSE Last(out[i]) = Decimal1(ind.sura) \o <<58>> \o Decimal1(ind.verse)
                                    \o <<58>> \o Decimal1(ind.word)

\* get_text has yielded the tuples of several blocks, the last for a second
\* block, in block mode
C9_Witness ==
    /\ pc = "done" /\ call = 1
    /\ BlocksOn
    /\ Len(out) >= 3
    /\ Last(out[Len(out)]) = <<50, 58, 49, 58, 50, 58, 50>>

\* C10: the first invocation has returned after its sequence was consumed;
\* then the caller's Index objects hold what they held before it, and a
\* second invocation with the same objects and args ends as the first did,
\* with the same tuples.
C10_NoVisibleChange ==
    (call = 2 /\ err1 = "none") =>
        /\ pc = "start" => objs = objs0
        /\ Ended => (out = out1 /\ err = err1)

\* ------------------------------------- claims on the start of the traversal
\* the 0-based coordinate c names a leaf of d
InBounds0(c, d) ==
    /\ c[1] \in 0..Len(d.indexes) - 1
    /\ c[2] \in 0..Len(d.indexes[c[1] + 1]) - 1
    /\ c[3] \in 0..Len(d.indexes[c[1] + 1][c[2] + 1]) - 1
    /\ c[4] \in 0..Len(d.indexes[c[1] + 1][c[2] + 1][c[3] + 1]) - 1

\* C11: when get_text has started _extract_seq, the initial and the final
\* coordinate it handed over are both in bounds in 0-based form, whatever the
\* raw input was (components explicit in or out of bounds, 0 on the initial
\* coordinate, -1 on the final one).
C11_ResolvedInBounds ==
    (call = 1 /\ pc = "extract") =>
        /\ InBounds0(IniCoord, data)
        /\ InBounds0(EndCoord, data)

\* the Index ind with each component decreased by exactly 1
Decreased(ind) == Index(ind.sura - 1, ind.verse - 1, ind.word - 1, ind.block - 1)

\* C12: in one invocation the step from the resolved 1-based coordinates to
\* the 0-based ones leaves each of the two coordinates with every component
\* exactly 1 less, also when both parameters are the same Index object; no
\* later step of the invocation changes a coordinate again; and every record
\* _extract_seq emits carries the loop position plus 1 at each of the four
\* levels.
C12_ConvertedOnce ==
    [][/\ pc = "base_zero" =>
             /\ objs'[ini_index] = Decreased(objs[ini_index])
             /\ objs'[end_index] = Decreased(objs[end_index])
       /\ pc \in {"call_extract", "extract", "present"} => objs' = objs
       /\ yielded' # yielded =>
             /\ Len(yielded') = Len(yielded) + 1
             /\ Last(yielded').index = Index(isura + 1, iverse + 1, iword + 1, iblock + 1)
      ]_vars

\* a stop-check of lines 55, 60, 66-67 is reached and true at the loop position
StopCheckFires ==
    \/ epc = "verse" /\ iverse < Len(Verses) /\ ~VerseSkipCheck /\ VerseStopCheck
    \/ epc = "word" /\ iword < Len(Words) /\ ~WordSkipCheck /\ WordStopCheck
    \/ epc = "block" /\ iblock < Len(BlockIds) /\ ~BlockSkipCheck /\ BlockStopCheck

\* C13: on a resolved in-bounds pair the traversal of _extract_seq eventually
\* finishes, raises nothing and emits no more records than the structure has
\* leaves; it finishes only by the exhaustion of the sura loop (the sura
\* counter is past end.sura) or by a stop-check that is true at the loop
\* position, a true stop-check ends the whole traversal at once, and nothing
\* is emitted after the traversal has finished.
C13_Terminates ==
    /\ <>ExtractDone
    /\ [](err = "none" /\ pc # "raised" /\ Len(yielded) <= Len(data.blocks))
    /\ [][/\ (epc' = "exhausted" /\ epc # "exhausted") => (epc = "sura" /\ isura > end_sura)
          /\ (epc' = "returned" /\ epc # "returned") => StopCheckFires
          /\ StopCheckFires => (epc' = "returned" /\ yielded' = yielded)
          /\ ExtractDone => (epc' = epc /\ yielded' = yielded)
         ]_vars

\* the traversal has been ended by the word stop-check, at a word that follows
\* the final word in its verse, after two records
C13_Witness ==
    /\ epc = "returned"
    /\ Len(yielded) = 2
    /\ iword = end_word + 1
    /\ iword < Len(Words)
    /\ WordStopCheck

\* C14: for a resolved in-bounds pair with ini <= end, the standalone
\* _extract_seq ends its traversal at a word exactly when the loop is in
\* (end.sura, end.verse) and the word counter is past end.word, and when it
\* has finished it has yielded the sequence of records the package's
\* _extract_seq yields for the same structure and pair (same leaves, same
\* coordinates, same order).
C14_SameAsPackage ==
    [][LexLe(IniCoord, EndCoord) =>
          /\ (epc = "word" /\ iword < Len(Words) /\ ~WordSkipCheck) =>
                ((epc' = "returned")
                   <=> (isura = end_sura /\ iverse = end_verse /\ iword > end_word))
          /\ (ExtractDone' /\ ~ExtractDone) =>
                yielded' = ExtractSeq(data, IniCoord, EndCoord)
      ]_vars

====
